---- MODULE Spec2Model ----
(***************************************************************************)
(* A model of checker/parsing/maths_parser.py: the character sanitizer     *)
(* cleanup_string, the binding table and stages of parse_expr, the         *)
(* evaluation-suppressing tree rewrite and the symbol-splitting token      *)
(* transforms.                                                             *)
(*                                                                         *)
(* A Python string is a sequence of characters; a character is a TLA+      *)
(* string.  An ASCII character stands for itself ("a", ".", "?").  A       *)
(* non-ASCII character is written by a short tag ("SUP2" is U+00B2) and    *)
(* unicodedata.name is the table UnicodeName below.                        *)
(***************************************************************************)
EXTENDS Integers, Sequences, FiniteSets, TLC

VARIABLES
    pc,                     \* position in the function being executed
    input,                  \* cleanup_string: the argument as passed
    string,                 \* cleanup_string: the local variable `string`
    reject_unsafe_input,    \* cleanup_string: the keyword argument
    result,                 \* what the call returned or raised
    prev,                   \* the previous cleanup_string call: its argument and outcome
    caller_dict,            \* the mapping the caller of parse_expr owns
    entry_dict,             \* caller_dict as it was when the call was made
    expression_arg,         \* parse_expr: expression_str as passed
    expression_is_str,      \* parse_expr: isinstance(expression_str, str)
    expression_str,         \* parse_expr: the local variable
    local_ref,              \* parse_expr: the object local_dict refers to
    fresh_dict,             \* parse_expr: the dict made by line 427
    hints,                  \* parse_expr: the argument
    token_list,             \* stringify_expr: the token list
    module_node,            \* _evaluateFalse: what ast.parse returned
    ef_code,                \* parse_expr: what _evaluateFalse returned
    error,                  \* the exception on its way to line 445
    stages                  \* the stages the call has entered, in order

cleanVars == <<input, string, reject_unsafe_input, prev>>

argVars == <<entry_dict, expression_arg, expression_is_str, hints>>

dictVars == <<caller_dict, local_ref, fresh_dict>>

treeVars == <<token_list, module_node, ef_code, error, stages>>

parseVars == <<argVars, dictVars, expression_str, treeVars>>

vars == <<pc, result, cleanVars, parseVars>>

-----------------------------------------------------------------------------
(* Bounds *)

MaxPieces == 3

-----------------------------------------------------------------------------
(* Characters *)

Digits == {"0", "1", "2", "3", "4", "5", "6", "7", "8", "9"}

UpperCase == {"A", "B", "C", "D", "E", "F", "G", "H", "I", "J", "K", "L", "M",
              "N", "O", "P", "Q", "R", "S", "T", "U", "V", "W", "X", "Y", "Z"}

LowerCase == {"a", "b", "c", "d", "e", "f", "g", "h", "i", "j", "k", "l", "m",
              "n", "o", "p", "q", "r", "s", "t", "u", "v", "w", "x", "y", "z"}

\* The non-ASCII characters of the model and their unicodedata.name, split
\* into words as name.split() does.  "U0080" has no name (name is None).
UnicodeName ==
    [ PM     |-> <<"PLUS-MINUS", "SIGN">>,
      SUP2   |-> <<"SUPERSCRIPT", "TWO">>,
      SUP3   |-> <<"SUPERSCRIPT", "THREE">>,
      SUPN   |-> <<"SUPERSCRIPT", "LATIN", "SMALL", "LETTER", "N">>,
      SUB2   |-> <<"SUBSCRIPT", "TWO">>,
      SUB3   |-> <<"SUBSCRIPT", "THREE">>,
      HALF   |-> <<"VULGAR", "FRACTION", "ONE", "HALF">>,
      TENTH  |-> <<"VULGAR", "FRACTION", "ONE", "TENTH">>,
      NUMER1 |-> <<"VULGAR", "FRACTION", "NUMERATOR", "ONE">>,
      TIMES  |-> <<"MULTIPLICATION", "SIGN">>,
      DIVIDE |-> <<"DIVISION", "SIGN">>,
      LE     |-> <<"LESS-THAN", "OR", "EQUAL", "TO">>,
      GE     |-> <<"GREATER-THAN", "OR", "SLANTED", "EQUAL", "TO">>,
      EACUTE |-> <<"LATIN", "SMALL", "LETTER", "E", "WITH", "ACUTE">>,
      U0080  |-> << >> ]

NonAscii == DOMAIN UnicodeName

NUMBERS ==
    [ ZERO |-> 0, ONE |-> 1, TWO |-> 2, THREE |-> 3, FOUR |-> 4,
      FIVE |-> 5, SIX |-> 6, SEVEN |-> 7, EIGHT |-> 8, NINE |-> 9 ]

FRACTIONS ==
    [ HALF |-> 2, THIRD |-> 3, QUARTER |-> 4, FIFTH |-> 5, SIXTH |-> 6,
      SEVENTH |-> 7, EIGHTH |-> 8, NINTH |-> 9, TENTH |-> 10,
      THIRDS |-> 3, QUARTERS |-> 4, FIFTHS |-> 5, SIXTHS |-> 6,
      SEVENTHS |-> 7, EIGHTHS |-> 8, NINTHS |-> 9, TENTHS |-> 10 ]

ALLOWED_CHARACTER_LIST ==
    {" "} \cup {"(", ")"} \cup {"*", "+", ",", "-", ".", "/"} \cup Digits
        \cup {"<", "=", ">"} \cup UpperCase \cup {"^", "_"} \cup LowerCase
        \cup {"PM"}

\* "{0:d}".format(n) for the numbers the tables hold
DigitChar == <<"0", "1", "2", "3", "4", "5", "6", "7", "8", "9">>

RECURSIVE format_d(_)
format_d(n) ==
    IF n < 10 THEN <<DigitChar[n + 1]>>
    ELSE format_d(n \div 10) \o <<DigitChar[(n % 10) + 1]>>

-----------------------------------------------------------------------------
(* process_unicode_chars *)

StartsWith(name, word) == Len(name) > 0 /\ name[1] = word

\* One iteration of the loop: the text appended to `result` for `char` when
\* the previous character of the match had the name prev_name (<< >>: None).
DecodeChar(char, prev_name) ==
    LET name == UnicodeName[char] IN
    IF name = << >> THEN <<char>>
    ELSE IF StartsWith(name, "SUPERSCRIPT") /\ name[2] \in DOMAIN NUMBERS
    THEN IF StartsWith(prev_name, "SUPERSCRIPT")
         THEN format_d(NUMBERS[name[2]])
         ELSE <<"*", "*">> \o format_d(NUMBERS[name[2]])
    ELSE IF StartsWith(name, "SUBSCRIPT") /\ name[2] \in DOMAIN NUMBERS
    THEN IF StartsWith(prev_name, "SUBSCRIPT")
         THEN format_d(NUMBERS[name[2]])
         ELSE <<"_">> \o format_d(NUMBERS[name[2]])
    ELSE IF StartsWith(name, "VULGAR") /\ name[2] = "FRACTION"
    THEN IF name[3] \in DOMAIN NUMBERS /\ name[4] \in DOMAIN FRACTIONS
         THEN <<"(">> \o format_d(NUMBERS[name[3]]) \o <<"/">>
                  \o format_d(FRACTIONS[name[4]]) \o <<")">>
         ELSE <<char>>
    ELSE IF name \in {<<"MULTIPLICATION", "SIGN">>, <<"ASTERISK", "OPERATOR">>}
    THEN <<"*">>
    ELSE IF name \in {<<"DIVISION", "SIGN">>, <<"DIVISION", "SLASH">>}
    THEN <<"/">>
    ELSE IF name \in {<<"LESS-THAN", "OR", "EQUAL", "TO">>,
                      <<"LESS-THAN", "OR", "SLANTED", "EQUAL", "TO">>}
    THEN <<"<", "=">>
    ELSE IF name \in {<<"GREATER-THAN", "OR", "EQUAL", "TO">>,
                      <<"GREATER-THAN", "OR", "SLANTED", "EQUAL", "TO">>}
    THEN <<">", "=">>
    ELSE <<char>>

\* re.sub(NON_ASCII_CHAR_REGEX, process_unicode_chars, s): every maximal run
\* of non-ASCII characters is one match, and prev_name starts as None in
\* each match, so the previous name is that of the previous character when
\* it is non-ASCII and None otherwise.
RECURSIVE process_unicode_chars(_, _)
process_unicode_chars(s, i) ==
    IF i > Len(s) THEN << >>
    ELSE (IF s[i] \in NonAscii
          THEN DecodeChar(s[i], IF i > 1 /\ s[i - 1] \in NonAscii
                                THEN UnicodeName[s[i - 1]] ELSE << >>)
          ELSE <<s[i]>>)
         \o process_unicode_chars(s, i + 1)

-----------------------------------------------------------------------------
(* The values the variables of parse_expr hold while it is not running *)

NoHints == [kind |-> "None", keys |-> << >>]

NoTree ==
    [type |-> "None", id |-> "", ops |-> << >>, args |-> << >>,
     evaluate_false |-> FALSE]

ParseIdle ==
    /\ caller_dict = {}
    /\ entry_dict = {}
    /\ expression_arg = << >>
    /\ expression_is_str = TRUE
    /\ expression_str = << >>
    /\ local_ref = "None"
    /\ fresh_dict = {}
    /\ hints = NoHints
    /\ token_list = << >>
    /\ module_node = NoTree
    /\ ef_code = NoTree
    /\ error = ""
    /\ stages = << >>

-----------------------------------------------------------------------------
(* cleanup_string, statement by statement *)

\* string.replace(old, new): leftmost, non-overlapping
IsAt(s, i, old) ==
    /\ i + Len(old) - 1 <= Len(s)
    /\ \A k \in 1..Len(old) : s[i + k - 1] = old[k]

RECURSIVE str_replace(_, _, _, _)
str_replace(s, i, old, new) ==
    IF i > Len(s) THEN << >>
    ELSE IF IsAt(s, i, old) THEN new \o str_replace(s, i + Len(old), old, new)
    ELSE <<s[i]>> \o str_replace(s, i + 1, old, new)

Contains(s, c) == \E i \in 1..Len(s) : s[i] = c

\* Mutant: the unsafe characters are blanked at once, no sentinel is left
RECURSIVE sub_unsafe_as_space(_, _)
sub_unsafe_as_space(s, i) ==
    IF i > Len(s) THEN << >>
    ELSE IF s[i] \in ALLOWED_CHARACTER_LIST
    THEN <<s[i]>> \o sub_unsafe_as_space(s, i + 1)
    ELSE <<" ">> \o sub_unsafe_as_space(s, i + 1)

\* re.sub(UNSAFE_CHARACTERS_REGEX, '?', s): a maximal run of characters
\* outside the whitelist becomes one '?'
RECURSIVE sub_unsafe_characters(_, _)
sub_unsafe_characters(s, i) ==
    IF i > Len(s) THEN << >>
    ELSE IF s[i] \in ALLOWED_CHARACTER_LIST
    THEN <<s[i]>> \o sub_unsafe_characters(s, i + 1)
    ELSE IF i > 1 /\ s[i - 1] \notin ALLOWED_CHARACTER_LIST
    THEN sub_unsafe_characters(s, i + 1)
    ELSE <<"?">> \o sub_unsafe_characters(s, i + 1)

\* re.sub(r'([^0-9])\.([^0-9])', '\g<1> \g<2>', s)
RECURSIVE sub_dot_between(_, _)
sub_dot_between(s, i) ==
    IF i > Len(s) THEN << >>
    ELSE IF /\ i + 2 <= Len(s)
            /\ s[i] \notin Digits /\ s[i + 1] = "." /\ s[i + 2] \notin Digits
    THEN <<s[i], " ", s[i + 2]>> \o sub_dot_between(s, i + 3)
    ELSE <<s[i]>> \o sub_dot_between(s, i + 1)

\* re.sub(r'(.?)\.([^0-9])', '\g<1> \g<2>', s): at each position the greedy
\* (.?) first takes one character, and gives it back when that fails
RECURSIVE sub_dot_before(_, _)
sub_dot_before(s, i) ==
    IF i > Len(s) THEN << >>
    ELSE IF i + 2 <= Len(s) /\ s[i + 1] = "." /\ s[i + 2] \notin Digits
    THEN <<s[i], " ", s[i + 2]>> \o sub_dot_before(s, i + 3)
    ELSE IF i + 1 <= Len(s) /\ s[i] = "." /\ s[i + 1] \notin Digits
    THEN <<" ", s[i + 1]>> \o sub_dot_before(s, i + 2)
    ELSE <<s[i]>> \o sub_dot_before(s, i + 1)

\* string.replace("lambda", "lamda").replace("Lambda", "Lamda")
replace_lambda(s) ==
    str_replace(str_replace(s, 1, <<"l", "a", "m", "b", "d", "a">>,
                                  <<"l", "a", "m", "d", "a">>),
                1, <<"L", "a", "m", "b", "d", "a">>, <<"L", "a", "m", "d", "a">>)

\* Mutant: a double underscore collapses to one underscore
replace_dunder_by_underscore(s) == str_replace(s, 1, <<"_", "_">>, <<"_">>)

\* string.replace("__", " ")
replace_dunder(s) == str_replace(s, 1, <<"_", "_">>, <<" ">>)

\* re.sub(r'(?<![=<>])=(?![=<>])', '==', s)
RECURSIVE sub_single_equals(_, _)
sub_single_equals(s, i) ==
    IF i > Len(s) THEN << >>
    ELSE IF /\ s[i] = "="
            /\ ~(i > 1 /\ s[i - 1] \in {"=", "<", ">"})
            /\ ~(i < Len(s) /\ s[i + 1] \in {"=", "<", ">"})
    THEN <<"=", "=">> \o sub_single_equals(s, i + 1)
    ELSE <<s[i]>> \o sub_single_equals(s, i + 1)

\* Mutant: the sentinels are left in place
replace_sentinel_skipped(s) == s

\* string.replace("?", " ")
replace_sentinel(s) == str_replace(s, 1, <<"?">>, <<" ">>)

NoResult == [kind |-> "none", value |-> << >>]
Returned(v) == [kind |-> "return", value |-> v]
Raised(e) == [kind |-> "raise", value |-> <<e>>]

\* line 111
SubNonAscii ==
    /\ pc = "cleanup_111"
    /\ string' = process_unicode_chars(string, 1)
    /\ pc' = "cleanup_113"
    /\ UNCHANGED <<input, reject_unsafe_input, result, prev>>
    /\ UNCHANGED parseVars

\* line 113
SubUnsafe ==
    /\ pc = "cleanup_113"
    /\ string' = sub_unsafe_characters(string, 1)
    /\ pc' = "cleanup_114"
    /\ UNCHANGED <<input, reject_unsafe_input, result, prev>>
    /\ UNCHANGED parseVars

\* lines 114-119
RaiseUnsafeInput ==
    /\ pc = "cleanup_114"
    /\ reject_unsafe_input
    /\ Contains(string, "?")
    /\ result' = Raised("UnsafeInputException")
    /\ pc' = "done"
    /\ UNCHANGED <<input, string, reject_unsafe_input, prev>>
    /\ UNCHANGED parseVars

\* lines 114-116, the test failing
PassUnsafeCheck ==
    /\ pc = "cleanup_114"
    /\ reject_unsafe_input
    /\ ~Contains(string, "?")
    /\ pc' = "cleanup_124"
    /\ UNCHANGED <<input, string, reject_unsafe_input, result, prev>>
    /\ UNCHANGED parseVars

\* lines 120-122
ReplaceSentinel ==
    /\ pc = "cleanup_114"
    /\ ~reject_unsafe_input
    /\ string' = replace_sentinel(string)
    /\ pc' = "cleanup_124"
    /\ UNCHANGED <<input, reject_unsafe_input, result, prev>>
    /\ UNCHANGED parseVars

\* line 124
SubDotBetween ==
    /\ pc = "cleanup_124"
    /\ string' = sub_dot_between(string, 1)
    /\ pc' = "cleanup_125"
    /\ UNCHANGED <<input, reject_unsafe_input, result, prev>>
    /\ UNCHANGED parseVars

\* line 125
SubDotBefore ==
    /\ pc = "cleanup_125"
    /\ string' = sub_dot_before(string, 1)
    /\ pc' = "cleanup_127"
    /\ UNCHANGED <<input, reject_unsafe_input, result, prev>>
    /\ UNCHANGED parseVars

\* line 127
ReplaceLambda ==
    /\ pc = "cleanup_127"
    /\ string' = replace_lambda(string)
    /\ pc' = "cleanup_128"
    /\ UNCHANGED <<input, reject_unsafe_input, result, prev>>
    /\ UNCHANGED parseVars

\* line 128
ReplaceDunder ==
    /\ pc = "cleanup_128"
    /\ string' = replace_dunder(string)
    /\ pc' = "cleanup_129"
    /\ UNCHANGED <<input, reject_unsafe_input, result, prev>>
    /\ UNCHANGED parseVars

\* lines 129-130
SubEqualsAndReturn ==
    /\ pc = "cleanup_129"
    /\ string' = sub_single_equals(string, 1)
    /\ result' = Returned(string')
    /\ pc' = "done"
    /\ UNCHANGED <<input, reject_unsafe_input, prev>>
    /\ UNCHANGED parseVars

\* The caller passes what cleanup_string returned to cleanup_string again,
\* with the same flag, until a call returns its argument unchanged.
CleanupAgain ==
    /\ pc = "done"
    /\ result.kind = "return"
    /\ result.value # input
    /\ input' = result.value
    /\ string' = result.value
    /\ prev' = [arg |-> input, outcome |-> result]
    /\ result' = NoResult
    /\ pc' = "cleanup_111"
    /\ UNCHANGED reject_unsafe_input
    /\ UNCHANGED parseVars

-----------------------------------------------------------------------------
(* Inputs *)

RECURSIVE Flatten(_)
Flatten(ps) == IF ps = << >> THEN << >> ELSE Head(ps) \o Flatten(Tail(ps))

SeqsUpTo(S, n) == UNION {[1..k -> S] : k \in 0..n}

\* Raw inputs of cleanup_string: up to MaxPieces pieces in a row
Pieces ==
    { <<"a">>, <<"1">>, <<".">>, <<"_">>, <<"=">>, <<"<">>, <<"?">>,
      <<"EACUTE">>, <<"PM">>, <<"SUB2">>, <<"SUP2">>, <<".", ".">>,
      <<"l", "a", "m", "b", "d", "a">> }

CleanInputs == {Flatten(ps) : ps \in SeqsUpTo(Pieces, MaxPieces)}

InitClean ==
    /\ input \in CleanInputs
    /\ string = input
    /\ reject_unsafe_input \in BOOLEAN
    /\ result = NoResult
    /\ prev = [arg |-> << >>, outcome |-> NoResult]
    /\ pc = "cleanup_111"
    /\ ParseIdle

CleanNext ==
    \/ SubNonAscii
    \/ SubUnsafe
    \/ RaiseUnsafeInput
    \/ PassUnsafeCheck
    \/ ReplaceSentinel
    \/ SubDotBetween
    \/ SubDotBefore
    \/ ReplaceLambda
    \/ ReplaceDunder
    \/ SubEqualsAndReturn
    \/ CleanupAgain

SpecClean == InitClean /\ [][CleanNext]_vars

-----------------------------------------------------------------------------
(* Binding tables.  A dict is a set of <<key, value>> pairs with one pair   *)
(* for a key; a value is the name of the object bound.                      *)

Keys(d) == {p[1] : p \in d}

Get(d, k) == (CHOOSE p \in d : p[1] = k)[2]

\* dict.update(other)
Update(d, other) == {p \in d : p[1] \notin Keys(other)} \cup other

_GLOBAL_DICT ==
    { <<"Symbol", "sympy.Symbol">>, <<"Integer", "sympy.Integer">>,
      <<"Float", "sympy.Float">>, <<"Rational", "sympy.Rational">>,
      <<"Mul", "sympy.Mul">>, <<"Pow", "sympy.Pow">>, <<"Add", "sympy.Add">>,
      <<"Rel", "sympy.Rel">>, <<"Eq", "Equal">>,
      <<"Derivative", "sympy.Derivative">>, <<"diff", "sympy.Derivative">>,
      <<"sin", "sympy.sin">>, <<"cos", "sympy.cos">>, <<"tan", "sympy.tan">>,
      <<"Sin", "sympy.sin">>, <<"Cos", "sympy.cos">>, <<"Tan", "sympy.tan">>,
      <<"arcsin", "sympy.asin">>, <<"arccos", "sympy.acos">>,
      <<"arctan", "sympy.atan">>,
      <<"asin", "sympy.asin">>, <<"acos", "sympy.acos">>, <<"atan", "sympy.atan">>,
      <<"ArcSin", "sympy.asin">>, <<"ArcCos", "sympy.acos">>,
      <<"ArcTan", "sympy.atan">>,
      <<"sinh", "sympy.sinh">>, <<"cosh", "sympy.cosh">>, <<"tanh", "sympy.tanh">>,
      <<"arcsinh", "sympy.asinh">>, <<"arccosh", "sympy.acosh">>,
      <<"arctanh", "sympy.atanh">>,
      <<"asinh", "sympy.asinh">>, <<"acosh", "sympy.acosh">>,
      <<"atanh", "sympy.atanh">>,
      <<"cosec", "sympy.csc">>, <<"sec", "sympy.sec">>, <<"cot", "sympy.cot">>,
      <<"Csc", "sympy.csc">>, <<"Sec", "sympy.sec">>, <<"Cot", "sympy.cot">>,
      <<"arccosec", "sympy.acsc">>, <<"arcsec", "sympy.asec">>,
      <<"arccot", "sympy.acot">>,
      <<"acsc", "sympy.acsc">>, <<"asec", "sympy.asec">>, <<"acot", "sympy.acot">>,
      <<"ArcCsc", "sympy.acsc">>, <<"ArcSec", "sympy.asec">>,
      <<"ArcCot", "sympy.acot">>,
      <<"cosech", "sympy.csch">>, <<"sech", "sympy.sech">>, <<"coth", "sympy.coth">>,
      <<"exp", "sympy.exp">>, <<"log", "logarithm">>, <<"ln", "sympy.ln">>,
      <<"Exp", "sympy.exp">>, <<"Log", "logarithm">>, <<"Ln", "sympy.ln">>,
      <<"sqrt", "sympy.sqrt">>, <<"abs", "sympy.Abs">>,
      <<"Sqrt", "sympy.sqrt">>, <<"Abs", "sympy.Abs">> }

_PARSE_HINTS ==
    { <<"constant_pi", {<<"pi", "sympy.pi">>}>>,
      <<"constant_e", {<<"e", "sympy.E">>}>>,
      <<"imaginary_i", {<<"i", "sympy.I">>}>>,
      <<"imaginary_j", {<<"j", "sympy.I">>}>>,
      <<"natural_logarithm", {<<"log", "sympy.log">>, <<"Log", "sympy.log">>}>> }

\* The objects that are instances of Basic: the constants the hints bind.
\* Every other object of the two tables is a class or a function.
BasicInstances == {"sympy.pi", "sympy.E", "sympy.I"}

\* isinstance(obj, (Basic, type)) or callable(obj), for the objects of
\* _GLOBAL_DICT and _PARSE_HINTS
IsBasicTypeOrCallable(obj) ==
    \/ obj \in BasicInstances
    \/ obj \in {p[2] : p \in _GLOBAL_DICT}
    \/ obj = "sympy.log"

-----------------------------------------------------------------------------
(* Tokens: (toknum, tokval) pairs *)

Tok(type, chars) == [type |-> type, string |-> chars]

NAME(chars) == Tok("NAME", chars)
OP(chars) == Tok("OP", chars)
NUMBER(chars) == Tok("NUMBER", chars)

\* The text of a token as one string, as the tables key their names
RECURSIVE Join(_)
Join(chars) == IF chars = << >> THEN "" ELSE Head(chars) \o Join(Tail(chars))

IsName(tok, str) == tok.type = "NAME" /\ Join(tok.string) = str
IsOp(tok, str) == tok.type = "OP" /\ Join(tok.string) = str

SymbolName == <<"S", "y", "m", "b", "o", "l">>
IntegerName == <<"I", "n", "t", "e", "g", "e", "r">>

\* repr(str(name)) and "'{}'".format(char)
Quoted(chars) == <<"'">> \o chars \o <<"'">>

NameStart == UpperCase \cup LowerCase \cup {"_"}
NameChars == NameStart \cup Digits
OpChars == {"(", ")", "*", "+", ",", "-", ".", "/", "<", "=", ">", "^"}
TwoCharOps == {<<"*", "*">>, <<"=", "=">>, <<"<", "=">>, <<">", "=">>}

\* The last index of the run of characters of S that starts at i
RECURSIVE RunEnd(_, _, _)
RunEnd(s, i, S) ==
    IF i + 1 <= Len(s) /\ s[i + 1] \in S THEN RunEnd(s, i + 1, S) ELSE i

\* tokenize.generate_tokens, as stringify_expr calls it, for one line of
\* names, integers, operators and spaces; the NEWLINE and ENDMARKER tokens
\* that end the stream are left out.  A character that starts no token
\* ('?') is an ERRORTOKEN.
RECURSIVE generate_tokens(_, _)
generate_tokens(s, i) ==
    IF i > Len(s) THEN << >>
    ELSE IF s[i] = " " THEN generate_tokens(s, i + 1)
    ELSE IF s[i] \in NameStart
    THEN LET j == RunEnd(s, i, NameChars) IN
         <<NAME(SubSeq(s, i, j))>> \o generate_tokens(s, j + 1)
    ELSE IF s[i] \in Digits
    THEN LET j == RunEnd(s, i, Digits) IN
         <<NUMBER(SubSeq(s, i, j))>> \o generate_tokens(s, j + 1)
    ELSE IF i + 1 <= Len(s) /\ <<s[i], s[i + 1]>> \in TwoCharOps
    THEN <<OP(<<s[i], s[i + 1]>>)>> \o generate_tokens(s, i + 2)
    ELSE IF s[i] \in OpChars
    THEN <<OP(<<s[i]>>)>> \o generate_tokens(s, i + 1)
    ELSE <<Tok("ERRORTOKEN", <<s[i]>>)>> \o generate_tokens(s, i + 1)

-----------------------------------------------------------------------------
(* The token transformations of stringify_expr *)

\* sympy_parser.auto_number, for integer literals
RECURSIVE auto_number(_)
auto_number(tokens) ==
    IF tokens = << >> THEN << >>
    ELSE (IF Head(tokens).type = "NUMBER"
          THEN <<NAME(IntegerName), OP(<<"(">>), Head(tokens), OP(<<")">>)>>
          ELSE <<Head(tokens)>>)
         \o auto_number(Tail(tokens))

\* _auto_symbol: the tokens that replace tok
AutoSymbolToken(tok, local_dict, global_dict) ==
    LET name == Join(tok.string) IN
    IF tok.type = "NAME"
    THEN IF name \in Keys(local_dict) THEN <<tok>>
         ELSE IF /\ name \in Keys(global_dict)
                 /\ IsBasicTypeOrCallable(Get(global_dict, name))
         THEN <<tok>>
         ELSE <<NAME(SymbolName), OP(<<"(">>), NAME(Quoted(tok.string)),
                OP(<<")">>)>>
    ELSE <<tok>>

RECURSIVE _auto_symbol(_, _, _)
_auto_symbol(tokens, local_dict, global_dict) ==
    IF tokens = << >> THEN << >>
    ELSE AutoSymbolToken(Head(tokens), local_dict, global_dict)
         \o _auto_symbol(Tail(tokens), local_dict, global_dict)

\* sympy_parser.convert_xor
RECURSIVE convert_xor(_)
convert_xor(tokens) ==
    IF tokens = << >> THEN << >>
    ELSE (IF IsOp(Head(tokens), "^") THEN <<OP(<<"*", "*">>)>>
          ELSE <<Head(tokens)>>)
         \o convert_xor(Tail(tokens))

\* The names unicodedata.lookup('GREEK SMALL LETTER ' + name) finds
GreekSmallLetters ==
    { "alpha", "beta", "gamma", "delta", "epsilon", "zeta", "eta", "theta",
      "iota", "kappa", "lamda", "mu", "nu", "xi", "omicron", "pi", "rho",
      "sigma", "tau", "upsilon", "phi", "chi", "psi", "omega" }

\* sympy_parser._token_splittable
_token_splittable(symbol) ==
    IF Contains(symbol, "_") THEN FALSE
    ELSE IF Join(symbol) \in GreekSmallLetters THEN FALSE
    ELSE Len(symbol) > 1

DropLast2(seq) == SubSeq(seq, 1, Len(seq) - 2)

\* The `for char in symbol` loop the two splitting transformations share
RECURSIVE SplitChars(_, _, _, _, _)
SplitChars(res, symbol, k, local_dict, global_dict) ==
    IF k > Len(symbol) THEN res
    ELSE LET char == symbol[k] IN
         SplitChars(
             IF char \in Keys(local_dict) \/ char \in Keys(global_dict)
             THEN DropLast2(res)
                      \o <<NAME(<<char>>), NAME(SymbolName), OP(<<"(">>)>>
             ELSE res \o <<NAME(Quoted(<<char>>)), OP(<<")">>),
                           NAME(SymbolName), OP(<<"(">>)>>,
             symbol, k + 1, local_dict, global_dict)

\* One iteration of the `for tok in tokens` loop of a splitting
\* transformation; st holds the locals result, split and split_previous.
\* `grouping` is TRUE for _split_symbols_implicit_precedence, which adds the
\* brackets of lines 254 and 272, and FALSE for sympy's split_symbols, from
\* which it was copied and which has neither line.
SplitStep(st, tok, local_dict, global_dict, grouping) ==
    IF st.split_previous
    THEN [st EXCEPT !.split_previous = FALSE]
    ELSE IF IsName(tok, "Symbol")
    THEN [st EXCEPT !.split = TRUE, !.result = st.result \o <<tok>>]
    ELSE IF st.split /\ tok.type = "NAME"
    THEN LET symbol == SubSeq(tok.string, 2, Len(tok.string) - 1) IN
         IF _token_splittable(symbol)
         THEN LET opened ==
                      IF grouping
                      THEN DropLast2(st.result) \o <<OP(<<"(">>)>>
                               \o SubSeq(st.result, Len(st.result) - 1,
                                         Len(st.result))
                      ELSE st.result
                  looped == DropLast2(SplitChars(opened, symbol, 1,
                                                 local_dict, global_dict))
              IN  [ result |-> IF grouping THEN looped \o <<OP(<<")">>)>>
                               ELSE looped,
                    split |-> FALSE,
                    split_previous |-> TRUE ]
         ELSE [st EXCEPT !.split = FALSE, !.result = st.result \o <<tok>>]
    ELSE [st EXCEPT !.result = st.result \o <<tok>>]

RECURSIVE SplitLoop(_, _, _, _, _, _)
SplitLoop(st, tokens, i, local_dict, global_dict, grouping) ==
    IF i > Len(tokens) THEN st.result
    ELSE SplitLoop(SplitStep(st, tokens[i], local_dict, global_dict, grouping),
                   tokens, i + 1, local_dict, global_dict, grouping)

SplitStart == [result |-> << >>, split |-> FALSE, split_previous |-> FALSE]

\* sympy_parser.split_symbols
split_symbols(tokens, local_dict, global_dict) ==
    SplitLoop(SplitStart, tokens, 1, local_dict, global_dict, FALSE)

_split_symbols_implicit_precedence(tokens, local_dict, global_dict) ==
    SplitLoop(SplitStart, tokens, 1, local_dict, global_dict, TRUE)

\* callable(obj), for the objects the tables and the callers bind
IsCallable(obj) ==
    obj \in {p[2] : p \in _GLOBAL_DICT} \cup {"sympy.log"}

\* sympy_parser._token_callable
_token_callable(tok, local_dict, global_dict) ==
    LET name == Join(tok.string) IN
    IF name \in Keys(local_dict) THEN IsCallable(Get(local_dict, name))
    ELSE IF name \in Keys(global_dict) THEN IsCallable(Get(global_dict, name))
    ELSE FALSE

\* sympy_parser.implicit_multiplication on the flat token list: a '*' goes
\* between a closing bracket (of a bracket group or of an applied function)
\* and a name or an opening bracket, and between a name that is not callable
\* and a name or an opening bracket.
NeedsTimes(tok, nextTok, local_dict, global_dict) ==
    /\ nextTok.type = "NAME" \/ IsOp(nextTok, "(")
    /\ \/ IsOp(tok, ")")
       \/ /\ tok.type = "NAME"
          /\ ~_token_callable(tok, local_dict, global_dict)

RECURSIVE implicit_multiplication(_, _, _, _)
implicit_multiplication(tokens, i, local_dict, global_dict) ==
    IF i > Len(tokens) THEN << >>
    ELSE <<tokens[i]>>
         \o (IF /\ i < Len(tokens)
                /\ NeedsTimes(tokens[i], tokens[i + 1], local_dict, global_dict)
             THEN <<OP(<<"*">>)>> ELSE << >>)
         \o implicit_multiplication(tokens, i + 1, local_dict, global_dict)

\* Mutant: the grouping transformation of this file takes the place of
\* sympy's split_symbols
_TRANSFORMS_grouping ==
    << "auto_number", "_auto_symbol", "convert_xor",
       "_split_symbols_implicit_precedence", "implicit_multiplication",
       "function_exponentiation" >>

_TRANSFORMS ==
    << "auto_number", "_auto_symbol", "convert_xor", "split_symbols",
       "implicit_multiplication", "function_exponentiation" >>

\* transform(tokens, local_dict, global_dict) for a transformation by name.
\* function_exponentiation rewrites a function name followed by '**' only.
ApplyTransform(transform, tokens, local_dict, global_dict) ==
    CASE transform = "auto_number" -> auto_number(tokens)
      [] transform = "_auto_symbol" ->
             _auto_symbol(tokens, local_dict, global_dict)
      [] transform = "convert_xor" -> convert_xor(tokens)
      [] transform = "split_symbols" ->
             split_symbols(tokens, local_dict, global_dict)
      [] transform = "_split_symbols_implicit_precedence" ->
             _split_symbols_implicit_precedence(tokens, local_dict, global_dict)
      [] transform = "implicit_multiplication" ->
             implicit_multiplication(tokens, 1, local_dict, global_dict)
      [] transform = "function_exponentiation" -> tokens

\* for transform in transformations: tokens = transform(tokens, ...)
RECURSIVE ApplyTransforms(_, _, _, _)
ApplyTransforms(transforms, tokens, local_dict, global_dict) ==
    IF transforms = << >> THEN tokens
    ELSE ApplyTransforms(Tail(transforms),
                         ApplyTransform(Head(transforms), tokens,
                                        local_dict, global_dict),
                         local_dict, global_dict)

\* untokenize, for reading: the texts of the tokens in a row
RECURSIVE Untokenize(_)
Untokenize(tokens) ==
    IF tokens = << >> THEN ""
    ELSE Join(Head(tokens).string) \o Untokenize(Tail(tokens))

-----------------------------------------------------------------------------
(* Syntax trees.  Every node has the same fields: type is the ast class,     *)
(* id the name, literal or operator, ops the comparison operators of a       *)
(* Compare, args the operands (left and comparators for a Compare) and       *)
(* evaluate_false whether the keyword evaluate=False is attached.            *)

Node(type, id, ops, args) ==
    [type |-> type, id |-> id, ops |-> ops, args |-> args,
     evaluate_false |-> FALSE]

Name(id) == Node("Name", id, << >>, << >>)
Num(n) == Node("Num", n, << >>, << >>)
Str(text) == Node("Str", text, << >>, << >>)
Call(id, args) == Node("Call", id, << >>, args)
BinOp(op, left, right) == Node("BinOp", op, << >>, <<left, right>>)
UnaryOp(op, operand) == Node("UnaryOp", op, << >>, <<operand>>)
Compare(ops, args) == Node("Compare", "", ops, args)

\* The id of a Call whose func is not an ast.Name
NotAName == "<not a Name>"

\* An exception on its way out of a visit or a parse
Raise(exc) == Node("Raise", exc, << >>, << >>)

NoNode == NoTree

RELATIONS == {"<", "<=", ">", ">="}

Marked(node) == [node EXCEPT !.evaluate_false = TRUE]

\* ast.parse on the code of stringify_expr, for names, literals, calls of
\* one argument, brackets, the operators * and / and comparisons.  A parse
\* result is the node and the index of the next token.
Parsed(node, pos) == [ok |-> TRUE, node |-> node, pos |-> pos]
SyntaxError == [ok |-> FALSE, node |-> Raise("SyntaxError"), pos |-> 0]

IsQuoted(tok) == Len(tok.string) >= 2 /\ tok.string[1] = "'"

CompareOps == RELATIONS \cup {"=="}

RECURSIVE ParseComparison(_, _)
RECURSIVE ParseComparisonRest(_, _, _, _)
RECURSIVE ParseTerm(_, _)
RECURSIVE ParseTermRest(_, _)
RECURSIVE ParsePrimary(_, _)
RECURSIVE ParseTrailers(_, _)

ParsePrimary(toks, i) ==
    IF i > Len(toks) THEN SyntaxError
    ELSE IF toks[i].type = "NUMBER"
    THEN ParseTrailers(toks, Parsed(Num(Join(toks[i].string)), i + 1))
    ELSE IF toks[i].type = "NAME"
    THEN ParseTrailers(toks,
             Parsed(IF IsQuoted(toks[i])
                    THEN Str(Join(SubSeq(toks[i].string, 2,
                                         Len(toks[i].string) - 1)))
                    ELSE Name(Join(toks[i].string)),
                    i + 1))
    ELSE IF IsOp(toks[i], "(")
    THEN LET inner == ParseComparison(toks, i + 1) IN
         IF inner.ok /\ inner.pos <= Len(toks) /\ IsOp(toks[inner.pos], ")")
         THEN ParseTrailers(toks, Parsed(inner.node, inner.pos + 1))
         ELSE SyntaxError
    ELSE SyntaxError

ParseTrailers(toks, left) ==
    IF left.ok /\ left.pos <= Len(toks) /\ IsOp(toks[left.pos], "(")
    THEN LET func == IF left.node.type = "Name" THEN left.node.id
                     ELSE NotAName
             arg == ParseComparison(toks, left.pos + 1)
         IN  IF left.pos + 1 <= Len(toks) /\ IsOp(toks[left.pos + 1], ")")
             THEN ParseTrailers(toks, Parsed(Call(func, << >>), left.pos + 2))
             ELSE IF arg.ok /\ arg.pos <= Len(toks) /\ IsOp(toks[arg.pos], ")")
             THEN ParseTrailers(toks,
                      Parsed(Call(func, <<arg.node>>), arg.pos + 1))
             ELSE SyntaxError
    ELSE left

ParseTermRest(toks, left) ==
    IF /\ left.ok /\ left.pos <= Len(toks)
       /\ (IsOp(toks[left.pos], "*") \/ IsOp(toks[left.pos], "/"))
    THEN LET right == ParsePrimary(toks, left.pos + 1) IN
         IF right.ok
         THEN ParseTermRest(toks,
                  Parsed(BinOp(Join(toks[left.pos].string), left.node,
                               right.node),
                         right.pos))
         ELSE SyntaxError
    ELSE left

ParseTerm(toks, i) == ParseTermRest(toks, ParsePrimary(toks, i))

\* left (op term)*: a chain of comparison operators makes one Compare node
ParseComparisonRest(toks, left, ops, args) ==
    IF /\ left.ok /\ left.pos <= Len(toks)
       /\ toks[left.pos].type = "OP"
       /\ Join(toks[left.pos].string) \in CompareOps
    THEN LET right == ParseTerm(toks, left.pos + 1) IN
         IF right.ok
         THEN ParseComparisonRest(toks, Parsed(left.node, right.pos),
                  Append(ops, Join(toks[left.pos].string)),
                  Append(args, right.node))
         ELSE SyntaxError
    ELSE IF left.ok /\ ops # << >>
    THEN Parsed(Compare(ops, args), left.pos)
    ELSE left

ParseComparison(toks, i) ==
    LET left == ParseTerm(toks, i) IN
    ParseComparisonRest(toks, left, << >>, IF left.ok THEN <<left.node>> ELSE << >>)

ast_parse(toks) ==
    LET r == ParseComparison(toks, 1) IN
    IF r.ok /\ r.pos = Len(toks) + 1 THEN r.node ELSE Raise("SyntaxError")

-----------------------------------------------------------------------------
(* _EvaluateFalseTransformer *)

_ignore_functions == {"Integer", "Float", "Symbol", "factorial", "sqrt", "Sqrt"}

\* The operators table of sympy's EvaluateFalseTransformer, for the
\* arithmetic operators
operators ==
    [op \in {"+", "-", "*", "/", "**"} |->
        CASE op \in {"+", "-"} -> "Add"
          [] op \in {"*", "/"} -> "Mul"
          [] op = "**" -> "Pow"]

\* The first exception among the results of visiting the children, in the
\* order they were visited
RECURSIVE FirstRaise(_)
FirstRaise(kids) ==
    IF kids = << >> THEN NoNode
    ELSE IF Head(kids).type = "Raise" THEN Head(kids)
    ELSE FirstRaise(Tail(kids))

Reverse(seq) == [i \in 1..Len(seq) |-> seq[Len(seq) + 1 - i]]

\* Mutant: the children of the call are left as they were, not visited
visit_Call_children_unvisited(node, kids) ==
    IF node.id = NotAName THEN Raise("AttributeError")
    ELSE IF node.id \in _ignore_functions THEN node
    ELSE Marked(node)

\* visit_Call, after generic_visit has put the visited children `kids` in
\* place; node.func.id raises AttributeError when func is not a Name
visit_Call(node, kids) ==
    IF FirstRaise(kids).type = "Raise" THEN FirstRaise(kids)
    ELSE IF node.id = NotAName THEN Raise("AttributeError")
    ELSE IF node.id \in _ignore_functions THEN [node EXCEPT !.args = kids]
    ELSE Marked([node EXCEPT !.args = kids])

\* Mutant: only a chain of three or more operators is refused
is_nested_inequality_off_by_one(node) == Len(node.args) - 1 > 2

\* len(node.comparators) > 1
is_nested_inequality(node) == Len(node.args) - 1 > 1

\* visit_Compare, from line 341 on, with the visited children `kids`
visit_Compare(node, kids) ==
    IF FirstRaise(kids).type = "Raise" THEN FirstRaise(kids)
    ELSE IF node.ops[1] = "=="
    THEN Marked(Call("Eq", <<kids[1], kids[2]>>))
    ELSE IF node.ops[1] \in RELATIONS
    THEN Marked(Call("Rel", <<kids[1], kids[2], Str(node.ops[1])>>))
    ELSE [node EXCEPT !.args = kids]

\* visit_BinOp, inherited from sympy's EvaluateFalseTransformer, for an
\* operator of its table: the operands are visited, the right one first,
\* and the node becomes a call of the sympy class with evaluate=False; a
\* subtraction negates and a division inverts its right operand.
visit_BinOp(node, kids) ==
    IF FirstRaise(Reverse(kids)).type = "Raise" THEN FirstRaise(Reverse(kids))
    ELSE LET right ==
                 CASE node.id = "-" ->
                          Marked(Call("Mul", <<UnaryOp("-", Num("1")), kids[2]>>))
                   [] node.id = "/" ->
                          Marked(Call("Pow", <<kids[2], UnaryOp("-", Num("1"))>>))
                   [] OTHER -> kids[2]
         IN  Marked(Call(operators[node.id], <<kids[1], right>>))

\* NodeTransformer.visit: the visit_ method of the node's class, or
\* generic_visit, which visits the children and keeps the node
RECURSIVE visit(_)
visit(node) ==
    IF node.type = "Compare" /\ is_nested_inequality(node)
    THEN Raise("TypeError")
    ELSE LET kids == [i \in 1..Len(node.args) |-> visit(node.args[i])] IN
         CASE node.type = "Call" -> visit_Call(node, kids)
           [] node.type = "Compare" -> visit_Compare(node, kids)
           [] node.type = "BinOp" -> visit_BinOp(node, kids)
           [] OTHER -> IF FirstRaise(kids).type = "Raise" THEN FirstRaise(kids)
                       ELSE [node EXCEPT !.args = kids]

\* _evaluateFalse(code), given what ast.parse(code) produced
_evaluateFalse(node) == visit(node)

\* The lookup of a name by eval(code, global_dict, local_dict)
Resolve(name, local_dict, global_dict) ==
    IF name \in Keys(local_dict) THEN Get(local_dict, name)
    ELSE IF name \in Keys(global_dict) THEN Get(global_dict, name)
    ELSE "NameError"

\* sympy_parser.eval_expr: the expression tree, every name replaced by the
\* object it is bound to
RECURSIVE eval_expr(_, _, _)
eval_expr(node, local_dict, global_dict) ==
    [node EXCEPT
        !.id = IF node.type \in {"Name", "Call"}
               THEN Resolve(node.id, local_dict, global_dict) ELSE node.id,
        !.args = [i \in 1..Len(node.args) |->
                      eval_expr(node.args[i], local_dict, global_dict)]]

-----------------------------------------------------------------------------
(* parse_expr, statement by statement *)

\* The dict the name local_dict refers to
LocalDict == IF local_ref = "caller" THEN caller_dict ELSE fresh_dict

\* lines 432-433, for one hint
AddHint(d, hint) ==
    IF hint \in Keys(_PARSE_HINTS)
    THEN Update(d, Get(_PARSE_HINTS, hint)) ELSE d

\* lines 431-433: the loop over the hints
RECURSIVE AddHints(_, _)
AddHints(d, keys) ==
    IF keys = << >> THEN d ELSE AddHints(AddHint(d, Head(keys)), Tail(keys))

\* re.sub(r'([0-9])([lL])', '\g<1> \g<2>', s)
RECURSIVE sub_long_suffix(_, _)
sub_long_suffix(s, i) ==
    IF i > Len(s) THEN << >>
    ELSE IF i + 1 <= Len(s) /\ s[i] \in Digits /\ s[i + 1] \in {"l", "L"}
    THEN <<s[i], " ", s[i + 1]>> \o sub_long_suffix(s, i + 2)
    ELSE <<s[i]>> \o sub_long_suffix(s, i + 1)

\* cleanup_string(s, reject_unsafe_input=False) as one function
cleanup_string(s) ==
    sub_single_equals(
        replace_dunder(
            replace_lambda(
                sub_dot_before(
                    sub_dot_between(
                        replace_sentinel(
                            sub_unsafe_characters(
                                process_unicode_chars(s, 1), 1)), 1), 1))), 1)

\* Mutant: parse_expr cleans its text before anything else
cleaned_then_rewritten(s) == sub_long_suffix(cleanup_string(s), 1)

\* line 438: the text parse_expr hands to stringify_expr
rewritten_expression(s) == sub_long_suffix(s, 1)

\* The caller calls parse_expr, passing its own mapping, None or an object
\* that is no dict as local_dict
ParseCall(e, is_str, ref, h) ==
    /\ pc = "idle"
    /\ expression_arg' = e
    /\ expression_str' = e
    /\ expression_is_str' = is_str
    /\ local_ref' = ref
    /\ fresh_dict' = {}
    /\ hints' = h
    /\ entry_dict' = caller_dict
    /\ token_list' = << >>
    /\ module_node' = NoTree
    /\ ef_code' = NoTree
    /\ error' = ""
    /\ stages' = << >>
    /\ result' = NoResult
    /\ pc' = "parse_420"
    /\ UNCHANGED <<caller_dict, cleanVars>>

\* lines 420-423
ReturnNone ==
    /\ pc = "parse_420"
    /\ ~expression_is_str \/ expression_str = << >>
    /\ result' = Returned(<<NoTree>>)
    /\ pc' = "done"
    /\ UNCHANGED <<cleanVars, parseVars>>

\* lines 420-427
EnsureLocalDict ==
    /\ pc = "parse_420"
    /\ expression_is_str /\ expression_str # << >>
    /\ IF local_ref = "caller"
       THEN UNCHANGED <<local_ref, fresh_dict>>
       ELSE local_ref' = "fresh" /\ fresh_dict' = {}
    /\ pc' = "parse_430"
    /\ UNCHANGED <<result, cleanVars, argVars, caller_dict, expression_str,
                   treeVars>>

\* lines 430-433
MergeHints ==
    /\ pc = "parse_430"
    /\ IF hints.kind = "list"
       THEN IF local_ref = "caller"
            THEN /\ caller_dict' = AddHints(caller_dict, hints.keys)
                 /\ UNCHANGED fresh_dict
            ELSE /\ fresh_dict' = AddHints(fresh_dict, hints.keys)
                 /\ UNCHANGED caller_dict
       ELSE UNCHANGED <<caller_dict, fresh_dict>>
    /\ pc' = "parse_438"
    /\ UNCHANGED <<result, cleanVars, argVars, local_ref, expression_str,
                   treeVars>>

\* line 438
RewriteLongSuffix ==
    /\ pc = "parse_438"
    /\ expression_str' = rewritten_expression(expression_str)
    /\ pc' = "parse_441"
    /\ UNCHANGED <<result, cleanVars, argVars, dictVars, treeVars>>

\* line 441, stringify_expr: the tokenizer
Tokenize ==
    /\ pc = "parse_441"
    /\ token_list' = generate_tokens(expression_str, 1)
    /\ stages' = Append(stages, "tokenize")
    /\ pc' = "parse_441_transform"
    /\ UNCHANGED <<result, cleanVars, argVars, dictVars, expression_str,
                   module_node, ef_code, error>>

\* line 441, stringify_expr: the transformations
Transform ==
    /\ pc = "parse_441_transform"
    /\ token_list' = ApplyTransforms(_TRANSFORMS, token_list, LocalDict,
                                      _GLOBAL_DICT)
    /\ stages' = Append(stages, "transform")
    /\ pc' = "parse_292"
    /\ UNCHANGED <<result, cleanVars, argVars, dictVars, expression_str,
                   module_node, ef_code, error>>

\* lines 442 and 292: ast.parse returns the module node
AstParse ==
    /\ pc = "parse_292"
    /\ ast_parse(token_list).type # "Raise"
    /\ module_node' = ast_parse(token_list)
    /\ stages' = Append(stages, "tree")
    /\ pc' = "parse_293"
    /\ UNCHANGED <<result, cleanVars, argVars, dictVars, expression_str,
                   token_list, ef_code, error>>

\* lines 442 and 292: ast.parse raises SyntaxError
AstParseRaise ==
    /\ pc = "parse_292"
    /\ ast_parse(token_list).type = "Raise"
    /\ error' = ast_parse(token_list).id
    /\ stages' = Append(stages, "tree")
    /\ pc' = "parse_445"
    /\ UNCHANGED <<result, cleanVars, argVars, dictVars, expression_str,
                   token_list, module_node, ef_code>>

\* lines 293-297 and 442: the transformer returns the rewritten tree
Visit ==
    /\ pc = "parse_293"
    /\ _evaluateFalse(module_node).type # "Raise"
    /\ ef_code' = _evaluateFalse(module_node)
    /\ pc' = "parse_443"
    /\ UNCHANGED <<result, cleanVars, argVars, dictVars, expression_str,
                   token_list, module_node, error, stages>>

\* line 293: a visit_ method raises
VisitRaise ==
    /\ pc = "parse_293"
    /\ _evaluateFalse(module_node).type = "Raise"
    /\ error' = _evaluateFalse(module_node).id
    /\ pc' = "parse_445"
    /\ UNCHANGED <<result, cleanVars, argVars, dictVars, expression_str,
                   token_list, module_node, ef_code, stages>>

\* lines 443-444
EvalExpr ==
    /\ pc = "parse_443"
    /\ result' = Returned(<<eval_expr(ef_code, LocalDict, _GLOBAL_DICT)>>)
    /\ stages' = Append(stages, "eval")
    /\ pc' = "done"
    /\ UNCHANGED <<cleanVars, argVars, dictVars, expression_str, token_list,
                   module_node,
                   ef_code, error>>

\* lines 445-447
Except ==
    /\ pc = "parse_445"
    /\ error \in {"TokenError", "SyntaxError", "TypeError", "AttributeError",
                  "SympifyError"}
    /\ result' = Raised("ParsingException")
    /\ pc' = "done"
    /\ UNCHANGED <<cleanVars, parseVars>>

\* The call is over: what it returned or raised is the caller's, its local
\* variables are gone, and the caller's mapping is what the call left
ParseReturn ==
    /\ pc = "done"
    /\ result' = NoResult
    /\ entry_dict' = caller_dict
    /\ expression_arg' = << >>
    /\ expression_is_str' = TRUE
    /\ expression_str' = << >>
    /\ local_ref' = "None"
    /\ fresh_dict' = {}
    /\ hints' = NoHints
    /\ token_list' = << >>
    /\ module_node' = NoTree
    /\ ef_code' = NoTree
    /\ error' = ""
    /\ stages' = << >>
    /\ pc' = "idle"
    /\ UNCHANGED <<caller_dict, cleanVars>>

-----------------------------------------------------------------------------
(* The callers of parse_expr *)

MaxExprPieces == 2
MaxHints == 1
MaxDepth == 3

ExprPieces ==
    { <<"1", "/">>, <<"x", "y">>, <<"e">>, <<"l", "o", "g">>, <<"?">>,
      <<" ", "2", "L">>, <<"<", "x">>, <<"<", "x", "<", "x">> }

Expressions == {Flatten(ps) : ps \in SeqsUpTo(ExprPieces, MaxExprPieces)}

HintKeys == {"constant_e", "natural_logarithm", "no_such_hint"}

\* None, a list of hint keys, or an object that is neither list nor tuple
HintArgs ==
    {NoHints, [kind |-> "set", keys |-> <<"constant_e">>]}
        \cup {[kind |-> "list", keys |-> ks] : ks \in SeqsUpTo(HintKeys, MaxHints)}

\* The bindings the caller made in its mapping
CallerBindings == {<<"e", "caller.e">>, <<"n", "caller.n">>}

InitParse ==
    /\ pc = "idle"
    /\ result = NoResult
    /\ input = << >>
    /\ string = << >>
    /\ reject_unsafe_input = FALSE
    /\ prev = [arg |-> << >>, outcome |-> NoResult]
    /\ caller_dict = CallerBindings
    /\ entry_dict = CallerBindings
    /\ expression_arg = << >>
    /\ expression_is_str = TRUE
    /\ expression_str = << >>
    /\ local_ref = "None"
    /\ fresh_dict = {}
    /\ hints = NoHints
    /\ token_list = << >>
    /\ module_node = NoTree
    /\ ef_code = NoTree
    /\ error = ""
    /\ stages = << >>

ParseNext ==
    \/ /\ pc = "idle"
       /\ \E e \in Expressions, ref \in {"caller", "None"}, h \in HintArgs :
             ParseCall(e, TRUE, ref, h)
    \/ /\ pc = "idle"
       /\ \E e \in Expressions : ParseCall(e, TRUE, "other", NoHints)
    \/ /\ pc = "idle"
       /\ \E ref \in {"caller", "None"} : ParseCall(<< >>, FALSE, ref, NoHints)
    \/ ReturnNone
    \/ EnsureLocalDict
    \/ MergeHints
    \/ RewriteLongSuffix
    \/ Tokenize
    \/ Transform
    \/ AstParse
    \/ AstParseRaise
    \/ Visit
    \/ VisitRaise
    \/ EvalExpr
    \/ Except
    \/ ParseReturn

SpecParse == InitParse /\ [][ParseNext]_vars

-----------------------------------------------------------------------------
(* _evaluateFalse on the trees ast.parse can hand it: lines 293-297 and what  *)
(* parse_expr does with the outcome, lines 443-447                            *)

SymbolX == Call("Symbol", <<Str("x")>>)
IntegerOne == Call("Integer", <<Num("1")>>)

\* The trees with the tree c as one operand
Around(c) ==
    { Call("cos", <<c>>), Call("sqrt", <<c>>), UnaryOp("-", c),
      BinOp("/", IntegerOne, c), BinOp("+", c, SymbolX),
      Compare(<<"==">>, <<c, IntegerOne>>), Compare(<<"<=">>, <<SymbolX, c>>),
      Compare(<<"<", "<">>, <<IntegerOne, c, SymbolX>>) }

RECURSIVE Trees(_)
Trees(depth) ==
    IF depth = 0 THEN {SymbolX, IntegerOne}
    ELSE Trees(depth - 1) \cup UNION {Around(c) : c \in Trees(depth - 1)}

InitTree ==
    /\ pc = "parse_293"
    /\ result = NoResult
    /\ input = << >>
    /\ string = << >>
    /\ reject_unsafe_input = FALSE
    /\ prev = [arg |-> << >>, outcome |-> NoResult]
    /\ caller_dict = {}
    /\ entry_dict = {}
    /\ expression_arg = << >>
    /\ expression_is_str = TRUE
    /\ expression_str = << >>
    /\ local_ref = "fresh"
    /\ fresh_dict = {}
    /\ hints = NoHints
    /\ token_list = << >>
    /\ module_node \in Trees(MaxDepth)
    /\ ef_code = NoTree
    /\ error = ""
    /\ stages = <<"tokenize", "transform", "tree">>

TreeNext ==
    \/ Visit
    \/ VisitRaise
    \/ EvalExpr
    \/ Except

SpecTree == InitTree /\ [][TreeNext]_vars

-----------------------------------------------------------------------------
(* Properties of cleanup_string *)

HasUnsafe(s) == \E i \in 1..Len(s) : s[i] \notin ALLOWED_CHARACTER_LIST

HasDunder(s) == \E i \in 1..(Len(s) - 1) : s[i] = "_" /\ s[i + 1] = "_"

\* C1: with reject_unsafe_input true and a character outside the whitelist
\* in the decoded input (a literal '?' included), the call raises
\* UnsafeInputException: it never gets past the check of line 114 and
\* returns no string.
C1_UnsafeInputRejected ==
    (reject_unsafe_input /\ HasUnsafe(process_unicode_chars(input, 1)))
        => \/ pc \in {"cleanup_111", "cleanup_113", "cleanup_114"}
           \/ pc = "done" /\ result = Raised("UnsafeInputException")

C1_Witness ==
    /\ pc = "done"
    /\ reject_unsafe_input
    /\ Contains(input, "?")
    /\ result = Raised("UnsafeInputException")

\* C2: every character of a string cleanup_string returns is in the
\* whitelist, whatever reject_unsafe_input is; '?' is not in the whitelist,
\* so no returned string holds the sentinel.
C2_ReturnedWhitelisted ==
    result.kind = "return"
        => \A i \in 1..Len(result.value) :
               result.value[i] \in ALLOWED_CHARACTER_LIST

C2_Witness ==
    /\ result.kind = "return"
    /\ ~reject_unsafe_input
    /\ HasUnsafe(process_unicode_chars(input, 1))
    /\ Contains(result.value, " ")

\* C3: a string cleanup_string returns has no two adjacent underscores.
C3_NoDoubleUnderscore == result.kind = "return" => ~HasDunder(result.value)

C3_Witness ==
    /\ result.kind = "return"
    /\ Contains(input, "SUB2")
    /\ HasDunder(process_unicode_chars(input, 1))
    /\ Contains(result.value, "2")

\* C9: for an input of whitelisted characters, cleaning what cleanup_string
\* returned gives the same string again.
C9_Idempotent ==
    (/\ pc = "done"
     /\ result.kind = "return"
     /\ prev.outcome.kind = "return"
     /\ ~HasUnsafe(prev.arg))
        => result = prev.outcome

-----------------------------------------------------------------------------
(* Properties of parse_expr *)

\* The bindings of the hints a call selects
RECURSIVE SelectedHints(_)
SelectedHints(keys) ==
    IF keys = << >> THEN {}
    ELSE Update(SelectedHints(SubSeq(keys, 1, Len(keys) - 1)),
                IF keys[Len(keys)] \in Keys(_PARSE_HINTS)
                THEN Get(_PARSE_HINTS, keys[Len(keys)]) ELSE {})

\* The local bindings the caller gave the call
GivenBindings == IF local_ref = "caller" THEN entry_dict ELSE {}

\* The table is built: the call is past line 433
TableBuilt ==
    pc \in {"parse_438", "parse_441", "parse_441_transform", "parse_292",
            "parse_293", "parse_443", "parse_445"}

\* C4: once the table of a call is built, a name bound by the caller's local
\* bindings and by a selected hint resolves to the caller's binding, and a
\* name bound by a selected hint and by the global table resolves to the
\* hint's binding.
C4_LocalOverHintOverGlobal ==
    (TableBuilt /\ hints.kind = "list") =>
        \A name \in Keys(SelectedHints(hints.keys)) :
            /\ name \in Keys(GivenBindings) =>
                   Resolve(name, LocalDict, _GLOBAL_DICT)
                       = Get(GivenBindings, name)
            /\ (name \notin Keys(GivenBindings) /\ name \in Keys(_GLOBAL_DICT)) =>
                   Resolve(name, LocalDict, _GLOBAL_DICT)
                       = Get(SelectedHints(hints.keys), name)

\* C5: no call changes the mapping its caller supplied, and a call made
\* without hints uses no binding but those the caller made, whatever the
\* calls before it selected.
C5_NothingPersists ==
    /\ pc = "done" => caller_dict = entry_dict
    /\ (TableBuilt /\ hints.kind # "list" /\ local_ref = "caller") =>
           LocalDict = CallerBindings

\* C6 as stated: the text that reaches the tokenizer and the tree builder
\* has passed the sanitizer, so it holds no character outside the whitelist.
C6_SanitizedBeforeTokenized ==
    stages # << >> => ~HasUnsafe(expression_str)

StageOrder == <<"tokenize", "transform", "tree", "eval">>

\* C6, amended: for every non-empty string the stages run in the order
\* tokenizing, transformations, tree builder, evaluation, and parse_expr
\* does not sanitize: the text tokenized is the argument with nothing but
\* the space of line 438 put in, and the tokens are the tokens of that text.
C6_StagesWithoutSanitizer ==
    /\ stages = SubSeq(StageOrder, 1, Len(stages))
    /\ stages # << >> =>
           /\ expression_is_str /\ expression_arg # << >>
           /\ expression_str = sub_long_suffix(expression_arg, 1)
    /\ pc = "parse_441_transform" =>
           token_list = generate_tokens(sub_long_suffix(expression_arg, 1), 1)
    /\ (pc = "done" /\ expression_is_str /\ expression_arg # << >>) =>
           /\ Len(stages) >= 3
           /\ result.kind = "return" <=> stages = StageOrder

\* An unsafe character of the argument is in the text that was tokenized,
\* and the call went on to the tree builder
C6_Witness ==
    /\ pc = "done"
    /\ Contains(expression_arg, "?")
    /\ Contains(expression_str, "?")
    /\ Contains(expression_arg, "L")
    /\ expression_str # expression_arg
    /\ stages = <<"tokenize", "transform", "tree">>
    /\ result = Raised("ParsingException")

\* A comparison with two or more operators, at any depth of the tree
RECURSIVE HasChain(_)
HasChain(t) ==
    \/ t.type = "Compare" /\ Len(t.ops) >= 2
    \/ \E i \in 1..Len(t.args) : HasChain(t.args[i])

RECURSIVE CallsMarked(_)
CallsMarked(t) ==
    /\ t.type = "Call" => (t.evaluate_false <=> t.id \notin _ignore_functions)
    /\ t.type # "Compare"
    /\ \A i \in 1..Len(t.args) : CallsMarked(t.args[i])

IsUnboundIdentifier(w) ==
    Len(w) >= 2 /\ \A i \in 1..Len(w) : w[i] \in {"x", "y"}

\* The text "1/" followed by an unbound identifier was given
DividesByIdentifier ==
    /\ Len(expression_arg) >= 4
    /\ SubSeq(expression_arg, 1, 2) = <<"1", "/">>
    /\ IsUnboundIdentifier(SubSeq(expression_arg, 3, Len(expression_arg)))

\* The text of the product of the letters of w: x*y*z
RECURSIVE ProductText(_)
ProductText(w) ==
    IF Len(w) = 1 THEN w ELSE <<Head(w), "*">> \o ProductText(Tail(w))

\* What the tree builder gets for a text
TreeOfText(text) ==
    ast_parse(ApplyTransforms(<<"auto_number", "_auto_symbol", "convert_xor",
                                "split_symbols", "implicit_multiplication",
                                "function_exponentiation">>,
                              generate_tokens(text, 1), LocalDict,
                              _GLOBAL_DICT))

\* C10 as stated: "1/xyz" gives the tree of "1/(x*y*z)".
C10_GroupedDivisor ==
    (pc = "parse_293" /\ DividesByIdentifier) =>
        module_node =
            TreeOfText(<<"1", "/", "(">>
                       \o ProductText(SubSeq(expression_arg, 3,
                                             Len(expression_arg)))
                       \o <<")">>)

\* C10, amended: the pipeline of parse_expr splits the identifier into
\* single-character symbols and multiplies them without grouping them, so
\* "1/xyz" gives the tree of "1/x*y*z", which is ((1/x)*y)*z; the grouping
\* transformation _split_symbols_implicit_precedence is not in _TRANSFORMS.
C10_UngroupedDivisor ==
    (pc = "parse_293" /\ DividesByIdentifier) =>
        /\ module_node =
               TreeOfText(<<"1", "/">>
                          \o ProductText(SubSeq(expression_arg, 3,
                                                Len(expression_arg))))
        /\ module_node.type = "BinOp" /\ module_node.id = "*"
        /\ module_node.args[2] =
               Call("Symbol", <<Str(expression_arg[Len(expression_arg)])>>)

\* "1/xy" reached the tree builder as (1/x)*y
C10_Witness ==
    /\ pc = "parse_293"
    /\ expression_arg = <<"1", "/", "x", "y">>
    /\ module_node =
           BinOp("*", BinOp("/", Call("Integer", <<Num("1")>>),
                            Call("Symbol", <<Str("x")>>)),
                 Call("Symbol", <<Str("y")>>))

-----------------------------------------------------------------------------
(* The decimal point in what cleanup_string returns *)

\* C11: in every string cleanup_string returns, every decimal point is
\* immediately followed by a digit; none is followed by a non-digit or
\* stands at the end of the string.
C11_DotBeforeDigit ==
    (pc = "done" /\ result.kind = "return") =>
        \A i \in 1..Len(result.value) :
            result.value[i] = "." =>
                /\ i < Len(result.value)
                /\ result.value[i + 1] \in Digits

=============================================================================
